---------------------------- MODULE Spec2Model ----------------------------
(***************************************************************************)
(* Model of the FTP test-data generator (src/main.go): the bounded-retry   *)
(* connection establishment, the goroutines of main (video, snapshots,     *)
(* metadata, the two upload tasks), the two unbuffered completion channels *)
(* and the WaitGroup that main waits on before its final sleep.            *)
(***************************************************************************)
EXTENDS Integers, Sequences, FiniteSets, TLC

\* Largest configured max_retries explored where connection establishment is
\* studied (SpecConnect).
MaxAttempts == 3

\* Largest configured max_retries explored where the pipeline is studied (Spec).
PipelineAttempts == 1

\* Largest number of snapshot files ffmpeg may write into the snapshot directory
\* where the pipeline is studied (Spec).
MaxFiles == 2

\* The same where connection establishment is studied (SpecConnect).
ConnectFiles == 1

VARIABLES
    maxRetries,   \* config.MaxRetries (read from configuration.json, not validated)
    maxFrames,    \* most frames ffmpeg extracts, given config.Duration and config.Interval
    pcMain,       \* position of main / establishFTPConnection
    i,            \* loop index of establishFTPConnection
    dials,        \* number of ftp.Dial calls made
    logins,       \* number of c.Login calls made
    sleeps,       \* number of time.Sleep(RetryInterval) calls made
    FTPConn,      \* config.FTPConn: 0 is nil, k is the connection dialled by attempt k
    openConns,    \* attempts whose transport connection was opened and never closed
    connLog,      \* outcome logged for each attempt, in order
    estErr,       \* <<>> while no error was returned, <<n>> for "... after n attempts"
    exitCode,     \* -1 while the process runs, then the process exit code
    pcVideo,      \* goroutine of generateTestVideo
    pcSnap,       \* goroutine of generateSnapshots
    pcMeta,       \* goroutine of generateMetadata
    videoExists,  \* the test video file exists
    snapshots,    \* snapshot files present in the snapshot directory
    modTime,      \* modification time of each snapshot file, 0 while it does not exist
    metaFiles,    \* generateMetadata's glob result
    statFailed,   \* globbed files whose os.Stat failed in generateMetadata
    records,      \* generateMetadata's records
    csvExists,    \* the metadata file exists
    csvRows,      \* records held by the metadata file
    pcU1,         \* goroutine of uploadSnapshots
    u1Files,      \* uploadSnapshots' glob result
    u1Idx,        \* index of the file uploadSnapshots is at
    u1Log,        \* per push of uploadSnapshots: <<file, error returned, Stor, Close>>
    pcU2,         \* goroutine of uploadMetadata
    u2Log,        \* per push of uploadMetadata: <<file, error returned, Stor, Close>>
    inflight,     \* upload tasks currently inside FTPConn.Stor
    openFiles,    \* upload tasks holding an open local file
    stors,        \* number of FTPConn.Stor calls made
    paces,        \* number of pacing sleeps made by each upload task
    wg,           \* counter of the WaitGroup
    remoteSnaps,  \* snapshot files stored on the server
    remoteCsv,    \* contents stored as metadata.csv on the server, in order
    slept,        \* main has performed its final time.Sleep(Duration)
    stubFault     \* an external collaborator (server, ffmpeg, file system) has failed

connVars == <<maxRetries, maxFrames, i, dials, logins, sleeps, FTPConn, openConns, connLog, estErr>>
genVars == <<pcVideo, pcSnap, pcMeta, videoExists, snapshots, modTime, metaFiles, statFailed,
            records, csvExists, csvRows>>
u1Vars == <<pcU1, u1Files, u1Idx, u1Log>>
u2Vars == <<pcU2, u2Log>>
storeVars == <<inflight, openFiles, stors, remoteSnaps, remoteCsv>>
upVars == <<u1Vars, u2Vars, storeVars, paces>>
vars == <<connVars, genVars, upVars, pcMain, exitCode, wg, slept, stubFault>>

\* Values max_retries may hold: the JSON decoder accepts any integer.
RetryBudgets == (0 - 1)..MaxAttempts

\* ConnectFiles is lifted to MaxFiles when it exceeds it.
\* The two upload tasks: uploadSnapshots and uploadMetadata.
Tasks == {"snapshots", "metadata"}

Files == 1..(IF ConnectFiles > MaxFiles THEN ConnectFiles ELSE MaxFiles)

\* filepath.Glob returns its matches sorted by name.
RECURSIVE SortedSeq(_)
SortedSeq(S) ==
    IF S = {} THEN <<>>
    ELSE LET m == CHOOSE x \in S : \A y \in S : x <= y
         IN <<m>> \o SortedSeq(S \ {m})

Glob == SortedSeq(snapshots)

\* The state after readConfig and createDirectory, for a configuration whose
\* max_retries is in budgets and whose duration and interval allow cap frames.
InitWith(budgets, cap) ==
    /\ maxRetries \in budgets
    /\ maxFrames = cap
    /\ pcMain = "loop"
    /\ i = 0
    /\ dials = 0
    /\ logins = 0
    /\ sleeps = 0
    /\ FTPConn = 0
    /\ openConns = {}
    /\ connLog = <<>>
    /\ estErr = <<>>
    /\ exitCode = 0 - 1
    /\ pcVideo = "idle"
    /\ pcSnap = "idle"
    /\ pcMeta = "idle"
    /\ videoExists = FALSE
    /\ snapshots = {}
    /\ modTime = [f \in Files |-> 0]
    /\ metaFiles = <<>>
    /\ statFailed = {}
    /\ records = <<>>
    /\ csvExists = FALSE
    /\ csvRows = <<>>
    /\ pcU1 = "idle"
    /\ u1Files = <<>>
    /\ u1Idx = 0
    /\ u1Log = <<>>
    /\ pcU2 = "idle"
    /\ u2Log = <<>>
    /\ inflight = {}
    /\ openFiles = {}
    /\ stors = 0
    /\ paces = [t \in Tasks |-> 0]
    /\ wg = 0
    /\ remoteSnaps = {}
    /\ remoteCsv = <<>>
    /\ slept = FALSE
    /\ stubFault = FALSE

Init == InitWith(1..PipelineAttempts, MaxFiles)

InitConnect == InitWith(RetryBudgets, ConnectFiles)

\* The process runs until main returns or calls os.Exit; goroutines die with it.
Alive == exitCode = 0 - 1

-----------------------------------------------------------------------------
\* establishFTPConnection

\* Faulty variant of the loop condition: one attempt too many.
RetryLoopOffByOne == i <= maxRetries

\* Faulty variant of RetryLoopContinues: the body runs once before the test.
RetryLoopAtLeastOnce == i < maxRetries \/ i = 0

\* for i := 0; i < config.MaxRetries; i++
RetryLoopContinues == i < maxRetries

\* ftp.Dial fails: log, then time.Sleep, then continue.
DialFail ==
    /\ pcMain = "loop"
    /\ RetryLoopContinues
    /\ dials' = dials + 1
    /\ connLog' = Append(connLog, "dialFail")
    /\ pcMain' = "backoff"
    /\ stubFault' = TRUE
    /\ UNCHANGED <<maxRetries, maxFrames, i, logins, sleeps, FTPConn, openConns, estErr>>
    /\ UNCHANGED <<genVars, upVars, exitCode, wg, slept>>

\* ftp.Dial succeeds: the transport connection of attempt i+1 is open.
DialOk ==
    /\ pcMain = "loop"
    /\ RetryLoopContinues
    /\ dials' = dials + 1
    /\ openConns' = openConns \cup {i + 1}
    /\ pcMain' = "login"
    /\ UNCHANGED <<maxRetries, maxFrames, i, logins, sleeps, FTPConn, connLog, estErr>>
    /\ UNCHANGED <<genVars, upVars, exitCode, wg, slept, stubFault>>

\* Variant of LoginFail that closes the connection before retrying.
LoginFailCloses ==
    /\ pcMain = "login"
    /\ logins' = logins + 1
    /\ connLog' = Append(connLog, "authFail")
    /\ openConns' = openConns \ {i + 1}
    /\ pcMain' = "backoff"
    /\ stubFault' = TRUE
    /\ UNCHANGED <<maxRetries, maxFrames, i, dials, sleeps, FTPConn, estErr>>
    /\ UNCHANGED <<genVars, upVars, exitCode, wg, slept>>

\* c.Login fails: log, then time.Sleep, then continue; c is not closed.
LoginFail ==
    /\ pcMain = "login"
    /\ logins' = logins + 1
    /\ connLog' = Append(connLog, "authFail")
    /\ pcMain' = "backoff"
    /\ stubFault' = TRUE
    /\ UNCHANGED <<maxRetries, maxFrames, i, dials, sleeps, FTPConn, openConns, estErr>>
    /\ UNCHANGED <<genVars, upVars, exitCode, wg, slept>>

\* Faulty variant of LoginOk: the connection is stored but the loop goes on.
LoginOkNoReturn ==
    /\ pcMain = "login"
    /\ logins' = logins + 1
    /\ connLog' = Append(connLog, "ok")
    /\ FTPConn' = i + 1
    /\ i' = i + 1
    /\ pcMain' = "loop"
    /\ UNCHANGED <<maxRetries, maxFrames, dials, sleeps, openConns, estErr>>
    /\ UNCHANGED <<genVars, upVars, exitCode, wg, slept, stubFault>>

\* c.Login succeeds: config.FTPConn = c; return nil.
LoginOk ==
    /\ pcMain = "login"
    /\ logins' = logins + 1
    /\ connLog' = Append(connLog, "ok")
    /\ FTPConn' = i + 1
    /\ pcMain' = "returned"
    /\ UNCHANGED <<maxRetries, maxFrames, i, dials, sleeps, openConns, estErr>>
    /\ UNCHANGED <<genVars, upVars, exitCode, wg, slept, stubFault>>

\* Faulty variant of Backoff: the failed attempt is not counted.
BackoffKeepsAttempt ==
    /\ pcMain = "backoff"
    /\ sleeps' = sleeps + 1
    /\ pcMain' = "loop"
    /\ UNCHANGED <<maxRetries, maxFrames, i, dials, logins, FTPConn, openConns, connLog, estErr>>
    /\ UNCHANGED <<genVars, upVars, exitCode, wg, slept, stubFault>>

\* time.Sleep(time.Duration(config.RetryInterval)); continue
Backoff ==
    /\ pcMain = "backoff"
    /\ sleeps' = sleeps + 1
    /\ i' = i + 1
    /\ pcMain' = "loop"
    /\ UNCHANGED <<maxRetries, maxFrames, dials, logins, FTPConn, openConns, connLog, estErr>>
    /\ UNCHANGED <<genVars, upVars, exitCode, wg, slept, stubFault>>

\* return fmt.Errorf("failed to establish FTP connection after %d attempts", config.MaxRetries)
Exhausted ==
    /\ pcMain = "loop"
    /\ ~RetryLoopContinues
    /\ estErr' = <<maxRetries>>
    /\ pcMain' = "returned"
    /\ UNCHANGED <<maxRetries, maxFrames, i, dials, logins, sleeps, FTPConn, openConns, connLog>>
    /\ UNCHANGED <<genVars, upVars, exitCode, wg, slept, stubFault>>

-----------------------------------------------------------------------------
\* main

\* Faulty variant of MainCheckErr: the establishment error is ignored.
MainIgnoresError ==
    /\ pcMain = "returned"
    /\ pcMain' = "go1"
    /\ UNCHANGED <<connVars, genVars, upVars, exitCode, wg, slept, stubFault>>

\* err = establishFTPConnection(&config); if err != nil { log.Printf; os.Exit(1) }
MainCheckErr ==
    /\ pcMain = "returned"
    /\ IF estErr # <<>>
       THEN pcMain' = "exited" /\ exitCode' = 1
       ELSE pcMain' = "go1" /\ exitCode' = exitCode
    /\ UNCHANGED <<connVars, genVars, upVars, wg, slept, stubFault>>

\* go func() { generateTestVideo(config); testVideoDone <- true }()
GoVideo ==
    /\ pcMain = "go1"
    /\ pcMain' = "go2"
    /\ pcVideo' = "run"
    /\ UNCHANGED <<pcSnap, pcMeta, videoExists, snapshots, modTime, metaFiles, statFailed, records, csvExists, csvRows>>
    /\ UNCHANGED <<connVars, upVars, exitCode, wg, slept, stubFault>>

\* go func() { <-testVideoDone; generateSnapshots(config); snapshotsDone <- true }()
GoSnap ==
    /\ pcMain = "go2"
    /\ pcMain' = "go3"
    /\ pcSnap' = "recv"
    /\ UNCHANGED <<pcVideo, pcMeta, videoExists, snapshots, modTime, metaFiles, statFailed, records, csvExists, csvRows>>
    /\ UNCHANGED <<connVars, upVars, exitCode, wg, slept, stubFault>>

\* go func() { <-snapshotsDone; generateMetadata(config) }()
GoMeta ==
    /\ pcMain = "go3"
    /\ pcMain' = "wgAdd"
    /\ pcMeta' = "recv"
    /\ UNCHANGED <<pcVideo, pcSnap, videoExists, snapshots, modTime, metaFiles, statFailed, records, csvExists, csvRows>>
    /\ UNCHANGED <<connVars, upVars, exitCode, wg, slept, stubFault>>

\* wg.Add(2)
WgAdd ==
    /\ pcMain = "wgAdd"
    /\ wg' = wg + 2
    /\ pcMain' = "go4"
    /\ UNCHANGED <<connVars, genVars, upVars, exitCode, slept, stubFault>>

\* go func() { defer wg.Done(); uploadSnapshots(&config) }()
GoU1 ==
    /\ pcMain = "go4"
    /\ pcMain' = "go5"
    /\ pcU1' = "glob"
    /\ UNCHANGED <<u1Files, u1Idx, u1Log, u2Vars, storeVars, paces>>
    /\ UNCHANGED <<connVars, genVars, exitCode, wg, slept, stubFault>>

\* go func() { defer wg.Done(); uploadMetadata(&config) }()
GoU2 ==
    /\ pcMain = "go5"
    /\ pcMain' = "wait"
    /\ pcU2' = "open"
    /\ UNCHANGED <<u1Vars, u2Log, storeVars, paces>>
    /\ UNCHANGED <<connVars, genVars, exitCode, wg, slept, stubFault>>

\* Faulty variant of MainWait: main does not wait for the WaitGroup.
WaitNoBarrier ==
    /\ pcMain = "wait"
    /\ pcMain' = "sleep"
    /\ UNCHANGED <<connVars, genVars, upVars, exitCode, wg, slept, stubFault>>

\* Faulty variant of MainWait: main also waits for generateMetadata.
MainWaitForGeneration ==
    /\ pcMain = "wait"
    /\ wg = 0
    /\ pcMeta = "done"
    /\ pcMain' = "sleep"
    /\ UNCHANGED <<connVars, genVars, upVars, exitCode, wg, slept, stubFault>>

\* wg.Wait() returns once the counter is zero.
MainWait ==
    /\ pcMain = "wait"
    /\ wg = 0
    /\ pcMain' = "sleep"
    /\ UNCHANGED <<connVars, genVars, upVars, exitCode, wg, slept, stubFault>>

\* time.Sleep(time.Second * time.Duration(config.Duration))
MainSleep ==
    /\ pcMain = "sleep"
    /\ slept' = TRUE
    /\ pcMain' = "log"
    /\ UNCHANGED <<connVars, genVars, upVars, exitCode, wg, stubFault>>

\* log.Println("Program complete and exiting"); main returns and the process exits 0.
MainComplete ==
    /\ pcMain = "log"
    /\ pcMain' = "complete"
    /\ exitCode' = 0
    /\ UNCHANGED <<connVars, genVars, upVars, wg, slept, stubFault>>

-----------------------------------------------------------------------------
\* The generation goroutines and their completion channels

\* generateTestVideo: ffmpeg writes the test video, or fails and is only logged.
VideoRun ==
    /\ Alive
    /\ pcVideo = "run"
    /\ \E ok \in BOOLEAN :
        /\ videoExists' = ok
        /\ stubFault' = (stubFault \/ ~ok)
    /\ pcVideo' = "send"
    /\ UNCHANGED <<pcSnap, pcMeta, snapshots, modTime, metaFiles, statFailed, records, csvExists, csvRows>>
    /\ UNCHANGED <<connVars, upVars, pcMain, exitCode, wg, slept>>

\* Faulty variant of TestVideoDone: the snapshot goroutine does not receive first.
SnapStartNoRecv ==
    /\ Alive
    /\ pcSnap = "recv"
    /\ pcSnap' = "mkdir"
    /\ UNCHANGED <<pcVideo, pcMeta, videoExists, snapshots, modTime, metaFiles, statFailed, records, csvExists, csvRows>>
    /\ UNCHANGED <<connVars, upVars, pcMain, exitCode, wg, slept, stubFault>>

\* testVideoDone is unbuffered: the send of the video goroutine and the receive of
\* the snapshot goroutine complete together.
TestVideoDone ==
    /\ Alive
    /\ pcVideo = "send"
    /\ pcSnap = "recv"
    /\ pcVideo' = "done"
    /\ pcSnap' = "mkdir"
    /\ UNCHANGED <<pcMeta, videoExists, snapshots, modTime, metaFiles, statFailed, records, csvExists, csvRows>>
    /\ UNCHANGED <<connVars, upVars, pcMain, exitCode, wg, slept, stubFault>>

\* generateSnapshots: os.MkdirAll; on failure the function returns early.
SnapMkdir ==
    /\ Alive
    /\ pcSnap = "mkdir"
    /\ \E ok \in BOOLEAN :
        /\ pcSnap' = IF ok THEN "ffmpeg" ELSE "send"
        /\ stubFault' = (stubFault \/ ~ok)
    /\ UNCHANGED <<pcVideo, pcMeta, videoExists, snapshots, modTime, metaFiles, statFailed, records, csvExists, csvRows>>
    /\ UNCHANGED <<connVars, upVars, pcMain, exitCode, wg, slept>>

\* The latest modification time among the snapshots written so far.
Latest == IF snapshots = {} THEN 0
       ELSE CHOOSE t \in {modTime[g] : g \in snapshots} :
                \A g \in snapshots : modTime[g] <= t

\* ffmpeg writes the snapshots one after the other while the clock runs: each
\* snapshot is written one tick after its predecessor, the first at time 1.
Ticks == {1}

\* The running ffmpeg writes the next numbered snapshot of the video.
SnapWrite ==
    /\ Alive
    /\ pcSnap = "ffmpeg"
    /\ videoExists
    /\ Cardinality(snapshots) < maxFrames
    /\ LET f == Cardinality(snapshots) + 1
       IN /\ snapshots' = snapshots \cup {f}
          /\ \E tick \in Ticks :
                modTime' = [modTime EXCEPT ![f] = Latest + tick]
    /\ UNCHANGED <<pcVideo, pcSnap, pcMeta, videoExists, metaFiles, statFailed, records, csvExists, csvRows>>
    /\ UNCHANGED <<connVars, upVars, pcMain, exitCode, wg, slept, stubFault>>

\* snapshotCmd.Run() returns; an error is only logged. Without a video ffmpeg fails.
SnapFinish ==
    /\ Alive
    /\ pcSnap = "ffmpeg"
    /\ \E ok \in BOOLEAN :
        /\ ok => videoExists
        /\ stubFault' = (stubFault \/ (~ok /\ videoExists))
    /\ pcSnap' = "send"
    /\ UNCHANGED <<pcVideo, pcMeta, videoExists, snapshots, modTime, metaFiles, statFailed, records, csvExists, csvRows>>
    /\ UNCHANGED <<connVars, upVars, pcMain, exitCode, wg, slept>>

\* snapshotsDone is unbuffered: send and receive complete together.
SnapshotsDone ==
    /\ Alive
    /\ pcSnap = "send"
    /\ pcMeta = "recv"
    /\ pcSnap' = "done"
    /\ pcMeta' = "glob"
    /\ UNCHANGED <<pcVideo, videoExists, snapshots, modTime, metaFiles, statFailed, records, csvExists, csvRows>>
    /\ UNCHANGED <<connVars, upVars, pcMain, exitCode, wg, slept, stubFault>>

\* The CSV header record.
Header == <<"Filename", "Creation Time">>

\* The name ffmpeg gives snapshot f: snapshot%03d.jpg (f < 10 within the bounds).
SnapshotName(f) == "snapshot00" \o ToString(f) \o ".jpg"

\* The path the glob returns for snapshot f: the directory joined with its name.
SnapshotPath(f) == "snapshots/" \o SnapshotName(f)

\* fileInfo.ModTime().String()
TimeString(t) == "t" \o ToString(t)

\* Faulty variant of Record: the path is not reduced to its base name.
RecordFullPath(f) == <<SnapshotPath(f), TimeString(modTime[f])>>

\* []string{filepath.Base(file), fileInfo.ModTime().String()}
Record(f) == <<SnapshotName(f), TimeString(modTime[f])>>

\* The range loop over the globbed files: a file whose os.Stat fails is logged
\* and skipped (continue), every other one appends its record.
RECURSIVE Records(_, _)
Records(fs, failed) ==
    IF fs = <<>> THEN <<>>
    ELSE (IF Head(fs) \in failed THEN <<>> ELSE <<Record(Head(fs))>>)
            \o Records(Tail(fs), failed)

\* Faulty variant of MetaGlob: the check for an empty glob result is missing.
MetaGlobNoEmptyCheck ==
    /\ Alive
    /\ pcMeta = "glob"
    /\ metaFiles' = Glob
    /\ pcMeta' = "stat"
    /\ UNCHANGED <<pcVideo, pcSnap, videoExists, snapshots, modTime, statFailed, records, csvExists, csvRows>>
    /\ UNCHANGED <<connVars, upVars, pcMain, exitCode, wg, slept, stubFault>>

\* generateMetadata: glob the snapshots; with none, warn and return.
MetaGlob ==
    /\ Alive
    /\ pcMeta = "glob"
    /\ metaFiles' = Glob
    /\ pcMeta' = IF Glob = <<>> THEN "done" ELSE "stat"
    /\ UNCHANGED <<pcVideo, pcSnap, videoExists, snapshots, modTime, statFailed, records, csvExists, csvRows>>
    /\ UNCHANGED <<connVars, upVars, pcMain, exitCode, wg, slept, stubFault>>

\* records = header, then the record of every globbed file whose os.Stat succeeds.
MetaStat ==
    /\ Alive
    /\ pcMeta = "stat"
    /\ \E failed \in SUBSET {metaFiles[k] : k \in 1..Len(metaFiles)} :
        /\ statFailed' = failed
        /\ records' = <<Header>> \o Records(metaFiles, failed)
        /\ stubFault' = (stubFault \/ failed # {})
    /\ pcMeta' = "create"
    /\ UNCHANGED <<pcVideo, pcSnap, videoExists, snapshots, modTime, metaFiles, csvExists, csvRows>>
    /\ UNCHANGED <<connVars, upVars, pcMain, exitCode, wg, slept>>

\* os.Create(config.CsvOutputFile) truncates the file; a failure returns.
MetaCreate ==
    /\ Alive
    /\ pcMeta = "create"
    /\ \E ok \in BOOLEAN :
        /\ pcMeta' = IF ok THEN "write" ELSE "done"
        /\ csvExists' = (csvExists \/ ok)
        /\ csvRows' = IF ok THEN <<>> ELSE csvRows
        /\ stubFault' = (stubFault \/ ~ok)
    /\ UNCHANGED <<pcVideo, pcSnap, videoExists, snapshots, modTime, metaFiles, statFailed, records>>
    /\ UNCHANGED <<connVars, upVars, pcMain, exitCode, wg, slept>>

\* writer.WriteAll(records): on success the file holds the records.
MetaWrite ==
    /\ Alive
    /\ pcMeta = "write"
    /\ \E ok \in BOOLEAN :
        /\ csvRows' = IF ok THEN records ELSE csvRows
        /\ stubFault' = (stubFault \/ ~ok)
    /\ pcMeta' = "done"
    /\ UNCHANGED <<pcVideo, pcSnap, videoExists, snapshots, modTime, metaFiles, statFailed, records, csvExists>>
    /\ UNCHANGED <<connVars, upVars, pcMain, exitCode, wg, slept>>

-----------------------------------------------------------------------------
\* The upload goroutines

\* Faulty variant of UploadErr: the deferred close overwrites the store error.
UploadErrCloseWins(storOk, closeOk) ==
    IF ~closeOk THEN "closeFail" ELSE IF ~storOk THEN "storFail" ELSE "ok"

\* uploadFile's result once the file is open: the error of Stor, else the error
\* of the deferred file.Close() (kept only when err == nil), else nil.
UploadErr(storOk, closeOk) ==
    IF ~storOk THEN "storFail" ELSE IF ~closeOk THEN "closeFail" ELSE "ok"

\* What a call result is logged as.
Outcome(ok) == IF ok THEN "ok" ELSE "fail"

\* Variant of U1Glob gated on generateMetadata having finished.
U1GlobAfterManifest ==
    /\ Alive
    /\ pcU1 = "glob"
    /\ pcMeta = "done"
    /\ u1Files' = Glob
    /\ u1Idx' = 1
    /\ pcU1' = "loop"
    /\ UNCHANGED <<u1Log, u2Vars, storeVars, paces>>
    /\ UNCHANGED <<connVars, genVars, pcMain, exitCode, wg, slept, stubFault>>

\* uploadSnapshots: filepath.Glob of the snapshot directory.
U1Glob ==
    /\ Alive
    /\ pcU1 = "glob"
    /\ u1Files' = Glob
    /\ u1Idx' = 1
    /\ pcU1' = "loop"
    /\ UNCHANGED <<u1Log, u2Vars, storeVars, paces>>
    /\ UNCHANGED <<connVars, genVars, pcMain, exitCode, wg, slept, stubFault>>

\* Faulty variant of U1OpenFail: the first failed push ends the batch.
U1OpenFailReturns ==
    /\ Alive
    /\ pcU1 = "loop"
    /\ u1Idx <= Len(u1Files)
    /\ u1Log' = Append(u1Log, <<u1Files[u1Idx], "openFail", "none", "none">>)
    /\ pcU1' = "ret"
    /\ stubFault' = TRUE
    /\ UNCHANGED <<u1Files, u1Idx, u2Vars, storeVars, paces>>
    /\ UNCHANGED <<connVars, genVars, pcMain, exitCode, wg, slept>>

\* uploadFile: os.Open fails and its error is returned; uploadSnapshots logs it
\* and goes on to its sleep.
U1OpenFail ==
    /\ Alive
    /\ pcU1 = "loop"
    /\ u1Idx <= Len(u1Files)
    /\ u1Log' = Append(u1Log, <<u1Files[u1Idx], "openFail", "none", "none">>)
    /\ pcU1' = "pace"
    /\ stubFault' = TRUE
    /\ UNCHANGED <<u1Files, u1Idx, u2Vars, storeVars, paces>>
    /\ UNCHANGED <<connVars, genVars, pcMain, exitCode, wg, slept>>

\* uploadFile: os.Open succeeds and config.FTPConn.Stor is entered.
U1StorBegin ==
    /\ Alive
    /\ pcU1 = "loop"
    /\ u1Idx <= Len(u1Files)
    /\ u1Files[u1Idx] \in snapshots
    /\ openFiles' = openFiles \cup {"snapshots"}
    /\ inflight' = inflight \cup {"snapshots"}
    /\ stors' = stors + 1
    /\ pcU1' = "stor"
    /\ UNCHANGED <<u1Files, u1Idx, u1Log, u2Vars, remoteSnaps, remoteCsv, paces>>
    /\ UNCHANGED <<connVars, genVars, pcMain, exitCode, wg, slept, stubFault>>

\* Faulty variant of U1StorEnd: the file is closed only when Stor succeeded.
U1StorEndLeaks ==
    /\ Alive
    /\ pcU1 = "stor"
    /\ \E storOk, closeOk \in BOOLEAN :
        /\ u1Log' = Append(u1Log, <<u1Files[u1Idx], UploadErr(storOk, closeOk),
                                    Outcome(storOk), Outcome(closeOk)>>)
        /\ remoteSnaps' = IF storOk THEN remoteSnaps \cup {u1Files[u1Idx]} ELSE remoteSnaps
        /\ openFiles' = IF storOk THEN openFiles \ {"snapshots"} ELSE openFiles
        /\ stubFault' = (stubFault \/ ~storOk \/ ~closeOk)
    /\ inflight' = inflight \ {"snapshots"}
    /\ pcU1' = "pace"
    /\ UNCHANGED <<u1Files, u1Idx, u2Vars, stors, remoteCsv, paces>>
    /\ UNCHANGED <<connVars, genVars, pcMain, exitCode, wg, slept>>

\* Stor returns, with or without an error; the deferred file.Close() runs, with
\* or without an error; uploadFile returns and uploadSnapshots logs the result.
U1StorEnd ==
    /\ Alive
    /\ pcU1 = "stor"
    /\ \E storOk, closeOk \in BOOLEAN :
        /\ u1Log' = Append(u1Log, <<u1Files[u1Idx], UploadErr(storOk, closeOk),
                                    Outcome(storOk), Outcome(closeOk)>>)
        /\ remoteSnaps' = IF storOk THEN remoteSnaps \cup {u1Files[u1Idx]} ELSE remoteSnaps
        /\ stubFault' = (stubFault \/ ~storOk \/ ~closeOk)
    /\ openFiles' = openFiles \ {"snapshots"}
    /\ inflight' = inflight \ {"snapshots"}
    /\ pcU1' = "pace"
    /\ UNCHANGED <<u1Files, u1Idx, u2Vars, stors, remoteCsv, paces>>
    /\ UNCHANGED <<connVars, genVars, pcMain, exitCode, wg, slept>>

\* Faulty variant of U1Pace: the next file is taken without the sleep.
U1NoPace ==
    /\ Alive
    /\ pcU1 = "pace"
    /\ u1Idx' = u1Idx + 1
    /\ pcU1' = "loop"
    /\ UNCHANGED <<u1Files, u1Log, u2Vars, storeVars, paces>>
    /\ UNCHANGED <<connVars, genVars, pcMain, exitCode, wg, slept, stubFault>>

\* time.Sleep(time.Millisecond * time.Duration(config.Interval)), then the next file.
U1Pace ==
    /\ Alive
    /\ pcU1 = "pace"
    /\ paces' = [paces EXCEPT !["snapshots"] = @ + 1]
    /\ u1Idx' = u1Idx + 1
    /\ pcU1' = "loop"
    /\ UNCHANGED <<u1Files, u1Log, u2Vars, storeVars>>
    /\ UNCHANGED <<connVars, genVars, pcMain, exitCode, wg, slept, stubFault>>

\* Faulty variant of U1Return: uploadSnapshots drops the shared connection.
U1ReturnQuits ==
    /\ Alive
    /\ pcU1 = "loop"
    /\ u1Idx > Len(u1Files)
    /\ pcU1' = "ret"
    /\ FTPConn' = 0
    /\ UNCHANGED <<maxRetries, maxFrames, i, dials, logins, sleeps, openConns, connLog, estErr>>
    /\ UNCHANGED <<u1Files, u1Idx, u1Log, u2Vars, storeVars, paces>>
    /\ UNCHANGED <<genVars, pcMain, exitCode, wg, slept, stubFault>>

\* The range loop is over: log "Snapshot upload completed." and return.
U1Return ==
    /\ Alive
    /\ pcU1 = "loop"
    /\ u1Idx > Len(u1Files)
    /\ pcU1' = "ret"
    /\ UNCHANGED <<u1Files, u1Idx, u1Log, u2Vars, storeVars, paces>>
    /\ UNCHANGED <<connVars, genVars, pcMain, exitCode, wg, slept, stubFault>>

\* defer wg.Done() of the uploadSnapshots goroutine.
U1Done ==
    /\ Alive
    /\ pcU1 = "ret"
    /\ wg' = wg - 1
    /\ pcU1' = "done"
    /\ UNCHANGED <<u1Files, u1Idx, u1Log, u2Vars, storeVars, paces>>
    /\ UNCHANGED <<connVars, genVars, pcMain, exitCode, slept, stubFault>>

\* uploadMetadata: os.Open of the metadata file fails (always, when it does not
\* exist); uploadFile returns the error and uploadMetadata logs it.
U2OpenFail ==
    /\ Alive
    /\ pcU2 = "open"
    /\ u2Log' = Append(u2Log, <<"metadata.csv", "openFail", "none", "none">>)
    /\ stubFault' = (stubFault \/ csvExists)
    /\ pcU2' = "ret"
    /\ UNCHANGED <<u1Vars, storeVars, paces>>
    /\ UNCHANGED <<connVars, genVars, pcMain, exitCode, wg, slept>>

\* uploadFile: os.Open succeeds and config.FTPConn.Stor is entered.
U2StorBegin ==
    /\ Alive
    /\ pcU2 = "open"
    /\ csvExists
    /\ openFiles' = openFiles \cup {"metadata"}
    /\ inflight' = inflight \cup {"metadata"}
    /\ stors' = stors + 1
    /\ pcU2' = "stor"
    /\ UNCHANGED <<u1Vars, u2Log, remoteSnaps, remoteCsv, paces>>
    /\ UNCHANGED <<connVars, genVars, pcMain, exitCode, wg, slept, stubFault>>

\* Stor returns (on success the server holds what the file held), the deferred
\* file.Close() runs, uploadFile returns and uploadMetadata logs the result.
U2StorEnd ==
    /\ Alive
    /\ pcU2 = "stor"
    /\ \E storOk, closeOk \in BOOLEAN :
        /\ u2Log' = Append(u2Log, <<"metadata.csv", UploadErr(storOk, closeOk),
                                    Outcome(storOk), Outcome(closeOk)>>)
        /\ remoteCsv' = IF storOk THEN Append(remoteCsv, csvRows) ELSE remoteCsv
        /\ stubFault' = (stubFault \/ ~storOk \/ ~closeOk)
    /\ openFiles' = openFiles \ {"metadata"}
    /\ inflight' = inflight \ {"metadata"}
    /\ pcU2' = "ret"
    /\ UNCHANGED <<u1Vars, stors, remoteSnaps, paces>>
    /\ UNCHANGED <<connVars, genVars, pcMain, exitCode, wg, slept>>

\* defer wg.Done() of the uploadMetadata goroutine.
U2Done ==
    /\ Alive
    /\ pcU2 = "ret"
    /\ wg' = wg - 1
    /\ pcU2' = "done"
    /\ UNCHANGED <<u1Vars, u2Log, storeVars, paces>>
    /\ UNCHANGED <<connVars, genVars, pcMain, exitCode, slept, stubFault>>

-----------------------------------------------------------------------------
Next ==
    \/ DialFail \/ DialOk \/ LoginFail \/ LoginOk \/ Backoff \/ Exhausted
    \/ MainCheckErr \/ GoVideo \/ GoSnap \/ GoMeta \/ WgAdd \/ GoU1 \/ GoU2
    \/ MainWait \/ MainSleep \/ MainComplete
    \/ VideoRun \/ TestVideoDone \/ SnapMkdir \/ SnapWrite \/ SnapFinish
    \/ SnapshotsDone \/ MetaGlob \/ MetaStat \/ MetaCreate \/ MetaWrite
    \/ U1Glob \/ U1OpenFail \/ U1StorBegin \/ U1StorEnd \/ U1Pace \/ U1Return \/ U1Done
    \/ U2OpenFail \/ U2StorBegin \/ U2StorEnd \/ U2Done

Spec == Init /\ [][Next]_vars

SpecConnect == InitConnect /\ [][Next]_vars

\* The steps of main after establishFTPConnection, of uploadSnapshots and of
\* uploadMetadata.
MainStep ==
    \/ MainCheckErr \/ GoVideo \/ GoSnap \/ GoMeta \/ WgAdd \/ GoU1 \/ GoU2
    \/ MainWait \/ MainSleep \/ MainComplete

U1Step == U1Glob \/ U1OpenFail \/ U1StorBegin \/ U1StorEnd \/ U1Pace \/ U1Return \/ U1Done

U2Step == U2OpenFail \/ U2StorBegin \/ U2StorEnd \/ U2Done

InitFair == InitWith(1..PipelineAttempts, ConnectFiles)

\* The scheduler runs main and the two upload goroutines whenever they can take
\* a step, and every Stor call returns; nothing is assumed of the generation
\* goroutines.
FairSpec ==
    /\ InitFair
    /\ [][Next]_vars
    /\ WF_vars(MainStep)
    /\ WF_vars(U1Step)
    /\ WF_vars(U2Step)

-----------------------------------------------------------------------------
\* Properties

\* establishFTPConnection has returned to main.
Returned == pcMain \notin {"loop", "login", "backoff"}

\* Every ftp.Dial made so far has failed.
EveryDialFailed ==
    /\ Len(connLog) = dials
    /\ \A k \in 1..Len(connLog) : connLog[k] = "dialFail"

\* C1: with max attempts N >= 1 and every transport connect failing,
\* establishFTPConnection makes exactly N connect attempts, never stores a
\* connection, and returns the error naming N.
C1_ExhaustionAfterNFailedDials ==
    (maxRetries >= 1 /\ EveryDialFailed) =>
        /\ FTPConn = 0
        /\ dials <= maxRetries
        /\ Returned => (dials = maxRetries /\ estErr = <<maxRetries>>)

C1_Witness ==
    /\ Returned
    /\ EveryDialFailed
    /\ maxRetries = MaxAttempts
    /\ dials = MaxAttempts
    /\ estErr = <<MaxAttempts>>

\* Attempt K is the first one that succeeded at connect and authentication.
SucceededAt(K) ==
    /\ K \in 1..Len(connLog)
    /\ connLog[K] = "ok"
    /\ \A j \in 1..(K - 1) : connLog[j] # "ok"

\* C2: when attempts 1..K-1 fail and attempt K succeeds, establishFTPConnection
\* returns success after exactly K attempts: no further attempt is made, the
\* session holds the connection of attempt K, and K-1 sleeps happened in total.
C2_SuccessAfterExactlyKAttempts ==
    \A K \in 1..Len(connLog) :
        SucceededAt(K) =>
            /\ K <= maxRetries
            /\ Returned
            /\ estErr = <<>>
            /\ Len(connLog) = K
            /\ dials = K
            /\ FTPConn = K
            /\ sleeps = K - 1

C2_Witness ==
    /\ SucceededAt(MaxAttempts)
    /\ connLog[1] = "dialFail"
    /\ connLog[2] = "authFail"
    /\ pcMain = "complete"

\* C3: generateSnapshots starts only after generateTestVideo has returned, and
\* generateMetadata starts only after generateSnapshots has returned.
C3_GenerationStagesOrdered ==
    /\ pcSnap \notin {"idle", "recv"} => pcVideo \in {"send", "done"}
    /\ pcMeta \notin {"idle", "recv"} => pcSnap \in {"send", "done"}

C3_Witness ==
    /\ pcMeta = "write"
    /\ pcSnap = "done"
    /\ pcVideo = "done"

\* C4: at most one store operation is in flight on the shared session at any
\* moment: the Stor calls of uploadSnapshots and uploadMetadata never overlap.
C4_SingleInflightStore == Cardinality(inflight) <= 1

\* No generation or upload goroutine has been launched.
NothingStarted ==
    /\ pcVideo = "idle"
    /\ pcSnap = "idle"
    /\ pcMeta = "idle"
    /\ pcU1 = "idle"
    /\ pcU2 = "idle"

\* C5: when connection establishment exhausts its attempts the process exits
\* with a non-zero code and no stage is ever started.
C5_ExhaustionIsFatal ==
    estErr # <<>> =>
        /\ NothingStarted
        /\ pcMain \in {"returned", "exited"}
        /\ pcMain = "exited" => exitCode = 1
        /\ exitCode # 0

C5_Witness ==
    /\ pcMain = "exited"
    /\ exitCode = 1
    /\ estErr = <<MaxAttempts>>
    /\ dials = MaxAttempts

\* C6: main completes only after both upload tasks have finished and notified
\* the WaitGroup, and after the final sleep.
C6_CompleteAfterJoinAndSleep ==
    /\ pcMain \in {"sleep", "log", "complete"} =>
        (pcU1 = "done" /\ pcU2 = "done" /\ wg = 0 /\ inflight = {})
    /\ pcMain = "complete" => slept

C6_Witness ==
    /\ pcMain = "complete"
    /\ slept
    /\ Len(u1Log) = MaxFiles
    /\ u2Log # <<>>

\* C7: uploadSnapshots attempts a push for every enumerated file, in enumeration
\* order, whatever pushes fail, and notifies the WaitGroup only after all of them.
C7_BatchNeverShortened ==
    /\ Len(u1Log) <= Len(u1Files)
    /\ \A k \in 1..Len(u1Log) : u1Log[k][1] = u1Files[k]
    /\ pcU1 \in {"ret", "done"} => Len(u1Log) = Len(u1Files)

C7_Witness ==
    /\ pcU1 = "done"
    /\ Len(u1Files) = MaxFiles
    /\ Len(u1Log) = MaxFiles
    /\ u1Log[1][2] = "openFail"
    /\ u1Log[MaxFiles][2] = "ok"

\* C8: when the connection succeeds on the first attempt and every generation
\* stub succeeds with at least one capture, a completed run has exit code 0, a
\* manifest with at least one row, and a successful store of every capture file
\* and of the manifest file.
C8_EndToEnd ==
    ( /\ pcMain = "complete"
      /\ connLog = <<"ok">>
      /\ ~stubFault
      /\ pcMeta = "done"
      /\ snapshots # {} ) =>
        /\ exitCode = 0
        /\ Len(csvRows) >= 2
        /\ snapshots \subseteq remoteSnaps
        /\ remoteCsv # <<>>

\* C9: the upload tasks are not gated on the generation stages: once launched,
\* each can take its first step (enumerate the snapshot directory, push the
\* manifest file) in any state of the generation stages and of the other task.
C9_UploadsNotGated ==
    /\ (Alive /\ pcU1 = "glob") => ENABLED U1Glob
    /\ (Alive /\ pcU2 = "open") => ENABLED (U2OpenFail \/ U2StorBegin)

C9_Witness ==
    /\ pcVideo = "run"
    /\ pcMeta = "recv"
    /\ pcU1 = "loop"
    /\ u2Log # <<>>

\* C10: with max attempts = 1, establishFTPConnection makes exactly one try and
\* no backoff sleep, whether the try succeeds or fails.
C10_SingleAttemptNoSleep ==
    maxRetries = 1 =>
        /\ dials <= 1
        /\ sleeps = 0
        /\ Returned => dials = 1

\* C11: a failure inside generateTestVideo or generateSnapshots never halts the
\* pipeline: the stage's completion signal is delivered and its successor
\* starts. Stated on the finished process: main has not returned while a stage
\* that has returned is still waiting to hand its signal to its successor.
C11_SuccessorAlwaysStarts ==
    exitCode = 0 =>
        /\ ~(pcVideo = "send" /\ pcSnap = "recv")
        /\ ~(pcSnap = "send" /\ pcMeta = "recv")

\* The files generateMetadata and the upload tasks read and write.
fileSystem == <<videoExists, snapshots, modTime, csvExists, csvRows>>

\* C12: with zero matching snapshot files generateMetadata returns without
\* creating or writing the metadata file, and leaves the file system as it was
\* (so that a second call would find the same state and do the same).
C12_ZeroCapturesNoWrite ==
    /\ [](pcMeta = "done" /\ metaFiles = <<>> => ~csvExists /\ csvRows = <<>>)
    /\ [][(pcMeta = "glob" /\ Glob = <<>> /\ pcMeta' # pcMeta) =>
            (pcMeta' = "done" /\ UNCHANGED fileSystem)]_vars

C12_Witness ==
    /\ pcMeta = "done"
    /\ pcSnap = "done"
    /\ metaFiles = <<>>
    /\ snapshots = {}
    /\ ~csvExists

\* generateMetadata has written the metadata file.
ManifestWritten == pcMeta = "done" /\ csvRows # <<>>

\* The k-th data row of the metadata file is the record of snapshot f.
RowIs(k, f) == csvRows[k + 1] = <<SnapshotName(f), TimeString(modTime[f])>>

\* C13 as claimed: M >= 1 matching files give a manifest of exactly M+1 rows,
\* the header and then one row per file in enumeration order.
C13_ExactlyMPlusOneRows ==
    ManifestWritten =>
        /\ Len(csvRows) = Len(metaFiles) + 1
        /\ csvRows[1] = Header
        /\ \A k \in 1..Len(metaFiles) : RowIs(k, metaFiles[k])

\* The globbed files whose os.Stat succeeded, in enumeration order.
Statted ==
    LET Ok(f) == f \notin statFailed
    IN SelectSeq(metaFiles, Ok)

\* C13, amended: the manifest has the header first and then one row per
\* matching file whose os.Stat succeeded, in the filename-sorted enumeration
\* order, pairing base name and modification-time string; a file whose Stat
\* fails is omitted, none is duplicated, and with no Stat failure the rows are
\* exactly M+1.
C13_HeaderThenOneRowPerStattedFile ==
    ManifestWritten =>
        /\ Len(metaFiles) >= 1
        /\ {metaFiles[k] : k \in 1..Len(metaFiles)} = snapshots
        /\ \A j, k \in 1..Len(metaFiles) : j < k => metaFiles[j] < metaFiles[k]
        /\ csvRows[1] = Header
        /\ Len(csvRows) = Len(Statted) + 1
        /\ \A k \in 1..Len(Statted) : RowIs(k, Statted[k])
        /\ statFailed = {} => Len(csvRows) = Len(metaFiles) + 1

C13_Witness ==
    /\ ManifestWritten
    /\ statFailed = {}
    /\ Len(metaFiles) = MaxFiles
    /\ Len(csvRows) = MaxFiles + 1
    /\ modTime[1] # modTime[MaxFiles]

\* The pushes made so far by both upload tasks.
Pushes == u1Log \o u2Log

\* The push was given up at os.Open.
OpenFailed(e) == e[2] = "openFail"

\* C14: uploadFile holds the local file open only while Stor runs, so the file
\* is released on every return after a successful open, whether Stor succeeded
\* or failed; a failed open makes no Stor call and no Close; the error returned
\* is the open error, else the Stor error, else the Close error, which is
\* returned only when Stor succeeded.
C14_FileReleasedFirstErrorReturned ==
    /\ ("snapshots" \in openFiles) = (pcU1 = "stor")
    /\ ("metadata" \in openFiles) = (pcU2 = "stor")
    /\ stors = Cardinality(inflight)
                 + Len(SelectSeq(Pushes, LAMBDA e : ~OpenFailed(e)))
    /\ \A k \in 1..Len(Pushes) :
         LET e == Pushes[k] IN
         IF OpenFailed(e)
         THEN e[3] = "none" /\ e[4] = "none"
         ELSE /\ e[3] \in {"ok", "fail"}
              /\ e[4] \in {"ok", "fail"}
              /\ e[2] = (IF e[3] = "fail" THEN "storFail"
                         ELSE IF e[4] = "fail" THEN "closeFail" ELSE "ok")

C14_Witness ==
    /\ pcU1 = "done"
    /\ pcU2 = "done"
    /\ openFiles = {}
    /\ \E k \in 1..Len(u1Log) : OpenFailed(u1Log[k])
    /\ \E k \in 1..Len(u1Log) : u1Log[k][3] = "fail" /\ u1Log[k][4] = "fail"
    /\ u2Log = <<<<"metadata.csv", "closeFail", "ok", "fail">>>>

\* The attempts that failed at c.Login.
AuthFailed == {k \in 1..Len(connLog) : connLog[k] = "authFail"}

\* The connections that are open and are not the one stored in config.FTPConn.
Leaked == openConns \ {FTPConn}

\* C15: once establishFTPConnection has returned, the transport connections
\* that were opened and never closed, other than the one it stored, are exactly
\* those of the attempts that failed at authentication: one per such attempt,
\* at most N of them.
C15_FailedLoginsLeak ==
    Returned =>
        /\ Leaked = AuthFailed
        /\ Cardinality(Leaked) <= dials
        /\ (maxRetries >= 0 => Cardinality(Leaked) <= maxRetries)

C15_Witness ==
    /\ Returned
    /\ maxRetries = MaxAttempts
    /\ estErr # <<>>
    /\ Cardinality(Leaked) = MaxAttempts

\* C16: within one attempt c.Login is called only after that attempt's ftp.Dial
\* succeeded; a failure at either step uses up exactly one attempt; there are
\* never more ftp.Dial calls than N, nor more c.Login calls than successful
\* ftp.Dial calls.
C16_AttemptAccounting ==
    /\ [](/\ dials <= (IF maxRetries > 0 THEN maxRetries ELSE 0)
          /\ logins <= Cardinality(openConns)
          /\ Cardinality(openConns) <= dials
          /\ Len(connLog) = i + (IF FTPConn # 0 THEN 1 ELSE 0)
                              + (IF pcMain = "backoff" THEN 1 ELSE 0)
          /\ dials = i + (IF FTPConn # 0 \/ pcMain \in {"login", "backoff"}
                          THEN 1 ELSE 0))
    /\ [][logins' # logins =>
            /\ logins' = logins + 1
            /\ dials = i + 1
            /\ (i + 1) \in openConns
            /\ dials' = dials
            /\ i' \in {i, i + 1}]_vars

C16_Witness ==
    /\ Returned
    /\ maxRetries = MaxAttempts
    /\ dials = MaxAttempts
    /\ connLog[1] = "dialFail"
    /\ connLog[2] = "authFail"
    /\ logins = Cardinality(openConns)
    /\ logins < dials

\* C20: with max attempts zero or negative establishFTPConnection makes no
\* connect attempt and no sleep, leaves the session disconnected and returns the
\* exhaustion error, on which main exits with code 1 before starting any stage.
C20_NoAttemptWithoutBudget ==
    maxRetries <= 0 =>
        /\ dials = 0
        /\ logins = 0
        /\ sleeps = 0
        /\ connLog = <<>>
        /\ FTPConn = 0
        /\ openConns = {}
        /\ NothingStarted
        /\ pcMain \in {"loop", "returned", "exited"}
        /\ (Returned => estErr = <<maxRetries>>)
        /\ exitCode \in {0 - 1, 1}

C20_Witness ==
    /\ maxRetries = 0 - 1
    /\ estErr = <<0 - 1>>
    /\ pcMain = "exited"
    /\ exitCode = 1

\* C17: uploadSnapshots sleeps exactly once after every push, failed or not and
\* the last one included, so pushes and sleeps alternate and a batch of K files
\* ends with K pushes and K sleeps; uploadMetadata makes exactly one push and
\* never sleeps.
C17_OneSleepPerPush ==
    /\ Len(u1Log) = paces["snapshots"] + (IF pcU1 = "pace" THEN 1 ELSE 0)
    /\ pcU1 \in {"loop", "stor", "pace"} => paces["snapshots"] = u1Idx - 1
    /\ pcU1 \in {"ret", "done"} =>
          /\ Len(u1Log) = Len(u1Files)
          /\ paces["snapshots"] = Len(u1Files)
          /\ \A k \in 1..Len(u1Files) : u1Log[k][1] = u1Files[k]
    /\ paces["metadata"] = 0
    /\ Len(u2Log) = (IF pcU2 \in {"ret", "done"} THEN 1 ELSE 0)

C17_Witness ==
    /\ pcU1 = "done"
    /\ pcU2 = "done"
    /\ Len(u1Files) = MaxFiles
    /\ paces["snapshots"] = MaxFiles
    /\ u1Log[1][2] = "ok"
    /\ u1Log[MaxFiles][2] = "storFail"
    /\ Len(u2Log) = 1

\* C18: config.FTPConn is written once, by the successful return of
\* establishFTPConnection and before any goroutine is launched; from the first
\* launch on it holds that open connection, so every Stor call is made on a
\* connected session and none on a nil one.
C18_StoreOnlyWhenConnected ==
    /\ []((~NothingStarted \/ stors > 0 \/ inflight # {}) =>
            /\ FTPConn # 0
            /\ FTPConn \in openConns
            /\ estErr = <<>>)
    /\ [][FTPConn' # FTPConn =>
            /\ FTPConn = 0
            /\ pcMain = "login"
            /\ pcMain' = "returned"
            /\ NothingStarted]_vars

C18_Witness ==
    /\ inflight = Tasks
    /\ FTPConn = 1
    /\ stors = MaxFiles + 1

\* main has passed wg.Wait().
PastWait == pcMain \in {"sleep", "log", "complete"}

\* C19: once the connection is established, and with every Stor call returning,
\* main always reaches its end under fair scheduling of main and the two upload
\* goroutines, whatever the generation goroutines and their channels do; and
\* main does not get past wg.Wait() while an upload goroutine has not returned,
\* so a Stor call that never returns keeps main from completing.
C19_CompletesIffStoresReturn ==
    /\ (pcMain = "go1") ~> (pcMain = "complete")
    /\ [](PastWait => (pcU1 = "done" /\ pcU2 = "done" /\ inflight = {}))

C19_Witness ==
    /\ pcMain = "complete"
    /\ pcU1 = "done"
    /\ pcU2 = "done"
    /\ pcVideo = "run"
    /\ pcMeta = "recv"

=========================================================================
